---- MODULE Spec2Model ----
(***************************************************************************)
(* Model of the polite crawl controller of sumo-scraping:                  *)
(*   - PoliteSuumoScraper (sumo_scraping/polite_scraper.py): the session   *)
(*     loop over stations, the page loop of one station, the quota         *)
(*     truncation, the result object;                                      *)
(*   - RateLimiter, RetryManager, RequestMonitor, PoliteRequestManager     *)
(*     (sumo_scraping/rate_limiter.py): pacing under a semaphore, bounded  *)
(*     retries, outcome recording, with several concurrent callers.        *)
(* Two specifications: Spec is one crawl session, SpecGate is a set of     *)
(* concurrent callers of PoliteRequestManager.make_request.                *)
(***************************************************************************)
EXTENDS Integers, Sequences, FiniteSets, TLC

\* ---------------------------------------------------------------- bounds
\* longest station list given to a session
MaxStations == 2
\* largest target_count given to a session
MaxQuota == 2
\* most property elements on one listing page
MaxProps == 2
\* most rooms of one property element
MaxRoomsPerProp == 2

\* concurrent callers of PoliteRequestManager.make_request
NCallers == 2
\* largest concurrent_limit of a RateLimitConfig
MaxConcurrent == 2
\* largest max_retries of a RateLimitConfig given to the gate
MaxRetries == 2
\* largest delay (in clock ticks) of a RateLimitConfig
MaxDelay == 2
\* clock ticks a gate run is followed for
MaxTicks == 3
\* calls of make_request made in a gate run
MaxRequests == 3
\* calls of record_request made on a monitor followed alone
MaxRecords == 3
\* retention periods such a monitor is followed for
MaxHours == 2
\* most validation errors a session collects
MaxErrors == 1
\* pages of one station the logged page number of the plain crawler is
\* followed for
MaxLoggedPages == 2

\* ------------------------------------------------------ program constants
\* page cap of the polite page loop: while current_url and page_count < 10
MaxPagesPerStation == 10
\* RateLimitConfig.max_retries as set by PoliteSuumoScraper.__init__
max_retries == 3
\* retention window of RequestMonitor.request_times, in seconds
Retention == 3600

\* -------------------------------------------------------------- stations
\* names the resolver knows (keys of MAJOR_STATIONS) and one it does not
KnownStations == {"A", "B"}
UnknownStations == {"X"}
StationNames == KnownStations \cup UnknownStations

\* a resolver that accepts every name
ResolvesAnything(station_name) == TRUE

\* station_name not in MAJOR_STATIONS -> ValueError
Resolves(station_name) == station_name \in KnownStations

\* get_station_url: the start URL of a station is page 1 of its listing
\* (a URL is known by the station whose listing it belongs to)
get_station_url(station_name) == [st |-> station_name]

NoUrl == [st |-> "none"]

Distinct(s) == \A a, b \in 1..Len(s) : a # b => s[a] # s[b]

StationLists ==
    { s \in UNION { [1..n -> StationNames] : n \in 1..MaxStations } : Distinct(s) }

\* ---------------------------------------------------------------- records
RECURSIVE Iota(_)
Iota(n) == IF n = 0 THEN << >> ELSE Append(Iota(n - 1), n)

\* the element lists a listing page can show: per element its room count
ElementLists == UNION { [1..n -> 1..MaxRoomsPerProp] : n \in 0..MaxProps }

\* sum(len(prop.rooms) for prop in props)
RECURSIVE RoomCount(_)
RoomCount(props) ==
    IF props = << >> THEN 0
    ELSE Len(Head(props).rooms) + RoomCount(Tail(props))

\* extract_property_info on element ix of the document shown: a PropertyInfo.
\* si, pn, ix say where the session met it: the station loop index, the
\* number of the page within that station's loop, the element's place on
\* the page; st is the station whose listing the document belongs to.
PropertyOf(st, where, ix, nrooms) ==
    [si |-> where[1], pn |-> where[2], ix |-> ix, st |-> st,
     rooms |-> Iota(nrooms), orig |-> nrooms, station_name |-> "none"]

\* the element loop of scrape_page: append, then stop once
\* rooms(self.properties + properties) >= target_count
RECURSIVE ScrapeLoop(_, _, _, _, _, _)
ScrapeLoop(els, k, acc, st, where, quota) ==
    IF k > Len(els) THEN << >>
    ELSE LET p == PropertyOf(st, where, k, els[k])
             rest == IF RoomCount(acc) + Len(p.rooms) >= quota
                     THEN << >>
                     ELSE ScrapeLoop(els, k + 1, Append(acc, p), st, where, quota)
         IN  <<p>> \o rest

\* _limit_properties without the test "if needed_rooms > 0"
RECURSIVE LimitLoopKeepsEmpty(_, _, _)
LimitLoopKeepsEmpty(props, room_count, max_rooms) ==
    IF props = << >> THEN << >>
    ELSE LET prop == Head(props) IN
         IF room_count + Len(prop.rooms) <= max_rooms
         THEN <<prop>> \o LimitLoopKeepsEmpty(Tail(props),
                                              room_count + Len(prop.rooms), max_rooms)
         ELSE << [prop EXCEPT !.rooms = SubSeq(prop.rooms, 1, max_rooms - room_count)] >>

\* _limit_properties(properties, max_rooms)
RECURSIVE LimitLoop(_, _, _)
LimitLoop(props, room_count, max_rooms) ==
    IF props = << >> THEN << >>
    ELSE LET prop == Head(props) IN
         IF room_count + Len(prop.rooms) <= max_rooms
         THEN <<prop>> \o LimitLoop(Tail(props), room_count + Len(prop.rooms), max_rooms)
         ELSE LET needed_rooms == max_rooms - room_count IN
              IF needed_rooms > 0
              THEN << [prop EXCEPT !.rooms = SubSeq(prop.rooms, 1, needed_rooms)] >>
              ELSE << >>

\* _limit_properties dropping the first record instead of cutting the tail
limit_properties_drop_head(props, max_rooms) ==
    IF RoomCount(props) <= max_rooms THEN props ELSE Tail(props)

\* _limit_properties returning its input uncut
limit_properties_uncut(props, max_rooms) == props

limit_properties(props, max_rooms) == LimitLoop(props, 0, max_rooms)

\* for prop in station_properties: prop.station_name = station_name
TagAll(props, station_name) ==
    [k \in 1..Len(props) |-> [props[k] EXCEPT !.station_name = station_name]]

\* ------------------------------------------------------------------ state
VARIABLES
    stations,            \* self.stations
    target_count,        \* self.target_count
    pc,                  \* position of the session coroutine
    i,                   \* index of the station loop (1-based)
    properties,          \* self.properties, the session accumulator
    station_properties,  \* local list of scrape_station
    current_station,     \* self.current_station
    current_url,         \* local of scrape_station
    page_count,          \* local of scrape_station
    attempt,             \* loop variable of execute_with_retry
    shown,               \* the document the browser page shows
    result,              \* what scrape_all_stations returned
    yielded,             \* rooms returned by all scrape_page calls so far
    fetched,             \* stations during whose scrape page.goto was invoked
    first_failed,        \* stations whose first-page request exhausted retries
    page_request_type,   \* request_type safe_goto_page gave make_request
    site,                \* the pages a deterministic site serves
    run,                 \* which of two sessions on the same input is running
    first_result,        \* what the first of the two sessions returned
    resources,           \* the browser resources started and not closed
    validation_errors,   \* len(self.validation_errors), up to MaxErrors
    output_json,         \* whether main was given a name for the JSON file
    files                \* the files the export has written

\* the browser and what main does around the session
mainVars == <<resources, validation_errors, output_json, files>>

\* what stays fixed during one session when the session is run twice
twiceVars == <<site, run, first_result>>

crawlVars == <<stations, target_count, pc, i, properties, station_properties,
               current_station, current_url, page_count, attempt, shown,
               result, yielded, fetched, first_failed, page_request_type, twiceVars, mainVars>>

\* state of the request gate (rate_limiter.py)
VARIABLES
    config,              \* the RateLimitConfig shared by the gate's parts
    now,                 \* time.time()
    semaphore,           \* free slots of RateLimiter._semaphore
    last_request_time,   \* RateLimiter.last_request_time
    request_count,       \* RateLimiter.request_count
    task,                \* per caller: position and locals of make_request
    request_times,       \* RequestMonitor.request_times
    success_count,       \* RequestMonitor.success_count
    error_count,         \* RequestMonitor.error_count
    record_calls,        \* calls of record_request so far, per success flag
    recorded_times,      \* the times of all calls of record_request so far
    pacer_obs            \* the latest return of wait_for_request, observed

gateVars == <<config, now, semaphore, last_request_time, request_count, task,
              request_times, success_count, error_count, record_calls, recorded_times, pacer_obs>>

vars == <<crawlVars, gateVars>>

Blank == [kind |-> "blank", st |-> "none", next |-> FALSE]
ErrorDoc == [kind |-> "error", st |-> "none", next |-> FALSE]
Listing(url, next) == [kind |-> "listing", st |-> url.st, next |-> next]

NoResult == [kind |-> "unset", properties |-> << >>]
NoneResult == [kind |-> "None", properties |-> << >>]

\* ------------------------------------------------------------ gate values
Callers == 1..NCallers

\* time.time() when the gate is constructed: far above every delay
Epoch == MaxDelay + 1

\* RateLimitConfig values: delays >= 0, min_delay <= max_delay,
\* concurrent_limit >= 1
GateConfigs ==
    [concurrent_limit : 1..MaxConcurrent, max_retries : 0..MaxRetries,
     min_delay : {1}, max_delay : {MaxDelay},
     page_delay : 1..MaxDelay, station_delay : {MaxDelay}, retry_delay : {2}]

RequestTypes == {"page", "station", "default"}

NoOutcome == [kind |-> "none", of |-> 0]
NoObs == [gap |-> 0, required |-> 0, seen |-> FALSE]

IdleTask ==
    [pc |-> "idle", request_type |-> "default", wake |-> 0, required_delay |-> 0,
     attempt |-> 0, calls |-> 0, fails |-> 0, last_exception |-> 0,
     actual_wait |-> 0, sleeps |-> 0, outcome |-> NoOutcome]

\* the gate of a crawl session is not followed step by step in Spec
GateIdle ==
    /\ config = [concurrent_limit |-> 1, max_retries |-> max_retries,
                 min_delay |-> 1, max_delay |-> 1, page_delay |-> 1,
                 station_delay |-> 1, retry_delay |-> 2]
    /\ now = Epoch
    /\ semaphore = 1
    /\ last_request_time = 0
    /\ request_count = 0
    /\ task = [p \in Callers |-> IdleTask]
    /\ request_times = << >>
    /\ success_count = 0
    /\ error_count = 0
    /\ record_calls = [flag \in BOOLEAN |-> 0]
    /\ recorded_times = << >>
    /\ pacer_obs = NoObs

\* nothing started, no validation error yet, no file name given, no file
MainIdle ==
    /\ resources = {}
    /\ validation_errors = 0
    /\ output_json = FALSE
    /\ files = {}

\* a session that is not compared with a second one: the site is not fixed
NoSite == [els |-> << >>, next |-> FALSE, failing |-> 0, after_failure |-> "same"]

SingleSession ==
    /\ site = NoSite
    /\ run = 1
    /\ first_result = NoResult

Init ==
    /\ stations \in StationLists
    /\ target_count \in 0..MaxQuota
    /\ pc = "init"
    /\ i = 1
    /\ properties = << >>
    /\ station_properties = << >>
    /\ current_station = "none"
    /\ current_url = NoUrl
    /\ page_count = 0
    /\ attempt = 0
    /\ shown = Blank
    /\ result = NoResult
    /\ yielded = 0
    /\ fetched = {}
    /\ first_failed = {}
    /\ page_request_type = "none"
    /\ MainIdle
    /\ SingleSession
    /\ GateIdle

\* what create_browser starts: async_playwright().start(), chromium.launch,
\* new_context and new_page
BrowserResources == {"playwright", "browser", "page"}

\* what is started when create_browser is left before its end
PartlyStarted == {{}, {"playwright"}, {"playwright", "browser"}}

\* close_browser: page.close(), browser.close(), playwright.stop()
close_browser == {}

\* scrape_all_stations: await self.create_browser()
CreateBrowser ==
    /\ pc = "init"
    /\ pc' = "loop"
    /\ shown' = Blank
    /\ resources' = BrowserResources
    /\ UNCHANGED <<validation_errors, output_json, files>>
    /\ UNCHANGED <<stations, target_count, i, properties, station_properties,
                   current_station, current_url, page_count, attempt, result,
                   yielded, fetched, first_failed, gateVars,
                   page_request_type, twiceVars>>

\* head of "for i, station in enumerate(self.stations)": list exhausted or
\* quota reached -> leave the loop
StationLoopExit ==
    /\ pc = "loop"
    /\ \/ i > Len(stations)
       \/ RoomCount(properties) >= target_count
    /\ pc' = "finish"
    /\ UNCHANGED <<stations, target_count, i, properties, station_properties,
                   current_station, current_url, page_count, attempt, shown,
                   result, yielded, fetched, first_failed, gateVars,
                   page_request_type, twiceVars, mainVars>>

\* scrape_station entry: resolver knows the station
StationStart ==
    /\ pc = "loop"
    /\ i <= Len(stations)
    /\ RoomCount(properties) < target_count
    /\ Resolves(stations[i])
    /\ current_station' = stations[i]
    /\ current_url' = get_station_url(stations[i])
    /\ page_count' = 0
    /\ station_properties' = << >>
    /\ pc' = "page_loop"
    /\ UNCHANGED <<stations, target_count, i, properties, attempt, shown,
                   result, yielded, fetched, first_failed, gateVars,
                   page_request_type, twiceVars, mainVars>>

\* scrape_station entry: get_station_url raises ValueError -> return []
StationUnknown ==
    /\ pc = "loop"
    /\ i <= Len(stations)
    /\ RoomCount(properties) < target_count
    /\ ~Resolves(stations[i])
    /\ current_station' = stations[i]
    /\ station_properties' = << >>
    /\ pc' = "station_return"
    /\ UNCHANGED <<stations, target_count, i, properties, current_url,
                   page_count, attempt, shown, result, yielded,
                   fetched, first_failed, gateVars,
                   page_request_type, twiceVars, mainVars>>

\* the page loop entered whatever the number of pages processed
PageLoopEnterUncapped ==
    /\ pc = "page_loop"
    /\ current_url # NoUrl
    /\ page_request_type' = "page"
    /\ pc' = "pace"
    /\ UNCHANGED <<stations, target_count, i, properties, station_properties,
                   current_station, current_url, page_count, attempt, shown,
                   result, yielded, fetched, first_failed, gateVars, twiceVars, mainVars>>

\* "while current_url and page_count < 10": enter the body, scrape_page calls
\* safe_goto_page, make_request awaits rate_limiter.wait_for_request("page")
PageLoopEnter ==
    /\ pc = "page_loop"
    /\ current_url # NoUrl
    /\ page_count < MaxPagesPerStation
    /\ page_request_type' = "page"
    /\ pc' = "pace"
    /\ UNCHANGED <<stations, target_count, i, properties, station_properties,
                   current_station, current_url, page_count, attempt, shown,
                   result, yielded, fetched, first_failed, gateVars, twiceVars, mainVars>>

\* the while condition is false: fall to the tagging loop
PageLoopExit ==
    /\ pc = "page_loop"
    /\ \/ current_url = NoUrl
       \/ page_count >= MaxPagesPerStation
    /\ pc' = "station_end"
    /\ UNCHANGED <<stations, target_count, i, properties, station_properties,
                   current_station, current_url, page_count, attempt, shown,
                   result, yielded, fetched, first_failed, gateVars,
                   page_request_type, twiceVars, mainVars>>

\* wait_for_request returned; execute_with_retry starts with attempt 0
Paced ==
    /\ pc = "pace"
    /\ attempt' = 0
    /\ pc' = "goto"
    /\ UNCHANGED <<stations, target_count, i, properties, station_properties,
                   current_station, current_url, page_count, shown, result,
                   yielded, fetched, first_failed, gateVars,
                   page_request_type, twiceVars, mainVars>>

\* the documents the browser can show after a navigation failed: the
\* previous one (nothing was committed) or an error document
AfterFailedGoto == {shown, ErrorDoc}

\* the quota check of scrape_station without its break: the batch is cut but
\* the page loop goes on
AfterPageNoBreak(page_properties) ==
    LET sp == station_properties \o page_properties
        total_rooms == RoomCount(properties) + RoomCount(sp)
    IN  /\ station_properties' =
               IF total_rooms >= target_count
               THEN limit_properties(sp, target_count - RoomCount(properties))
               ELSE sp
        /\ pc' = "next_link"

\* what scrape_station does with the list scrape_page returned (lines 334-349)
\* followed by the position it continues at
AfterPage(page_properties) ==
    LET sp == station_properties \o page_properties
        total_rooms == RoomCount(properties) + RoomCount(sp)
    IN  IF total_rooms >= target_count
        THEN /\ station_properties' =
                    limit_properties(sp, target_count - RoomCount(properties))
             /\ pc' = "station_end"
        ELSE /\ station_properties' = sp
             /\ pc' = "next_link"

\* _goto succeeds: page.goto returned a response with status < 400
GotoOk ==
    /\ pc = "goto"
    /\ \E nx \in BOOLEAN : shown' = Listing(current_url, nx)
    /\ fetched' = fetched \cup {current_station}
    /\ pc' = "extract"
    /\ UNCHANGED <<stations, target_count, i, properties, station_properties,
                   current_station, current_url, page_count, attempt, result,
                   yielded, first_failed, gateVars,
                   page_request_type, twiceVars, mainVars>>

\* a failed attempt retried whatever its number
GotoRetryUnbounded ==
    /\ pc = "goto"
    /\ fetched' = fetched \cup {current_station}
    /\ pc' = "backoff"
    /\ UNCHANGED <<stations, target_count, i, properties, station_properties,
                   current_station, current_url, page_count, attempt, shown,
                   result, yielded, first_failed, gateVars,
                   page_request_type, twiceVars, mainVars>>

\* _goto raises and attempt < max_retries: back off, then try again
GotoRetry ==
    /\ pc = "goto"
    /\ attempt < max_retries
    /\ fetched' = fetched \cup {current_station}
    /\ pc' = "backoff"
    /\ UNCHANGED <<stations, target_count, i, properties, station_properties,
                   current_station, current_url, page_count, attempt, shown,
                   result, yielded, first_failed, gateVars,
                   page_request_type, twiceVars, mainVars>>

\* asyncio.sleep(actual_wait) of execute_with_retry is over
BackoffDone ==
    /\ pc = "backoff"
    /\ attempt' = attempt + 1
    /\ pc' = "goto"
    /\ UNCHANGED <<stations, target_count, i, properties, station_properties,
                   current_station, current_url, page_count, shown, result,
                   yielded, fetched, first_failed, gateVars,
                   page_request_type, twiceVars, mainVars>>

\* _goto raises on the last attempt: execute_with_retry and make_request
\* re-raise, scrape_page catches and returns []
GotoExhausted ==
    /\ pc = "goto"
    /\ attempt = max_retries
    /\ fetched' = fetched \cup {current_station}
    /\ shown' \in AfterFailedGoto
    /\ first_failed' = IF page_count = 0
                       THEN first_failed \cup {current_station}
                       ELSE first_failed
    /\ AfterPage(<< >>)
    /\ UNCHANGED <<stations, target_count, i, properties, current_station,
                   current_url, page_count, attempt, result, yielded, gateVars,
                   page_request_type, twiceVars, mainVars>>

\* rest of scrape_page on the loaded document, which holds the elements els,
\* then lines 334-349
ExtractWith(els) ==
    /\ pc = "extract"
    /\ LET page_properties ==
               ScrapeLoop(els, 1, properties, shown.st, <<i, page_count + 1>>,
                          target_count)
       IN  /\ yielded' = yielded + RoomCount(page_properties)
           /\ AfterPage(page_properties)
    /\ UNCHANGED <<stations, target_count, i, properties, current_station,
                   current_url, page_count, attempt, shown, result, fetched,
                   first_failed, gateVars,
                   page_request_type, twiceVars, mainVars>>

Extract == \E els \in ElementLists : ExtractWith(els)

\* the same on a document that holds, besides the elements els, invalid
\* elements (a room row or a building that RoomInfo or PropertyInfo rejects):
\* extract_property_info appends each to self.validation_errors and the
\* element gives no record
ExtractInvalid ==
    /\ pc = "extract"
    /\ \E els \in ElementLists, invalid \in 1..MaxErrors :
          /\ validation_errors + invalid <= MaxErrors
          /\ validation_errors' = validation_errors + invalid
          /\ LET page_properties ==
                     ScrapeLoop(els, 1, properties, shown.st,
                                <<i, page_count + 1>>, target_count)
             IN  /\ yielded' = yielded + RoomCount(page_properties)
                 /\ AfterPage(page_properties)
    /\ UNCHANGED <<stations, target_count, i, properties, current_station,
                   current_url, page_count, attempt, shown, result, fetched,
                   first_failed, gateVars,
                   page_request_type, twiceVars, resources, output_json, files>>

\* href of 'p.pagination-parts + p a' on the document shown
NextHref ==
    IF shown.kind = "listing" /\ shown.next
    THEN [st |-> shown.st]
    ELSE NoUrl

\* current_url = await self.get_next_page_url(); page_count += 1; the
\* selector lookup may raise, which get_next_page_url turns into None
NextLink ==
    /\ pc = "next_link"
    /\ \E raised \in BOOLEAN :
          current_url' = IF raised THEN NoUrl ELSE NextHref
    /\ page_count' = page_count + 1
    /\ pc' = IF current_url' # NoUrl THEN "page_wait" ELSE "page_loop"
    /\ UNCHANGED <<stations, target_count, i, properties, station_properties,
                   current_station, attempt, shown, result, yielded,
                   fetched, first_failed, gateVars,
                   page_request_type, twiceVars, mainVars>>

\* asyncio.sleep(wait_time) between two pages is over
PageWaitDone ==
    /\ pc = "page_wait"
    /\ pc' = "page_loop"
    /\ UNCHANGED <<stations, target_count, i, properties, station_properties,
                   current_station, current_url, page_count, attempt, shown,
                   result, yielded, fetched, first_failed, gateVars,
                   page_request_type, twiceVars, mainVars>>

\* tagging loop and return of scrape_station
StationEnd ==
    /\ pc = "station_end"
    /\ station_properties' = TagAll(station_properties, current_station)
    /\ pc' = "station_return"
    /\ UNCHANGED <<stations, target_count, i, properties, current_station,
                   current_url, page_count, attempt, shown, result,
                   yielded, fetched, first_failed, gateVars,
                   page_request_type, twiceVars, mainVars>>

\* the station's list put in front of the accumulator instead of behind it
StationReturnPrepend ==
    /\ pc = "station_return"
    /\ properties' = station_properties \o properties
    /\ station_properties' = << >>
    /\ pc' = IF i < Len(stations) THEN "station_wait" ELSE "next_station"
    /\ UNCHANGED <<stations, target_count, i, current_station, current_url,
                   page_count, attempt, shown, result, yielded,
                   fetched, first_failed, gateVars,
                   page_request_type, twiceVars, mainVars>>

\* self.properties.extend(station_properties), then the wait between stations
StationReturn ==
    /\ pc = "station_return"
    /\ properties' = properties \o station_properties
    /\ station_properties' = << >>
    /\ pc' = IF i < Len(stations) THEN "station_wait" ELSE "next_station"
    /\ UNCHANGED <<stations, target_count, i, current_station, current_url,
                   page_count, attempt, shown, result, yielded,
                   fetched, first_failed, gateVars,
                   page_request_type, twiceVars, mainVars>>

\* asyncio.sleep(wait_time) between two stations is over
StationWaitDone ==
    /\ pc = "station_wait"
    /\ pc' = "next_station"
    /\ UNCHANGED <<stations, target_count, i, properties, station_properties,
                   current_station, current_url, page_count, attempt, shown,
                   result, yielded, fetched, first_failed, gateVars,
                   page_request_type, twiceVars, mainVars>>

\* the for loop takes the next station
NextStation ==
    /\ pc = "next_station"
    /\ i' = i + 1
    /\ pc' = "loop"
    /\ UNCHANGED <<stations, target_count, properties, station_properties,
                   current_station, current_url, page_count, attempt, shown,
                   result, yielded, fetched, first_failed, gateVars,
                   page_request_type, twiceVars, mainVars>>

\* ScrapingResult(properties=self.properties, total_count=len(...), ...):
\* validate_properties rejects an empty list, the ValidationError is caught
\* and None is returned
ScrapingResult(props) ==
    IF props = << >> THEN NoneResult
    ELSE [kind |-> "ScrapingResult", properties |-> props,
          total_count |-> Len(props), pages_scraped |-> Len(stations)]

\* build the result, close the browser, return
Finish ==
    /\ pc = "finish"
    /\ result' = ScrapingResult(properties)
    /\ pc' = "done"
    /\ resources' = close_browser
    /\ UNCHANGED <<validation_errors, output_json, files>>
    /\ UNCHANGED <<stations, target_count, i, properties, station_properties,
                   current_station, current_url, page_count, attempt, shown,
                   yielded, fetched, first_failed, gateVars,
                   page_request_type, twiceVars>>

\* create_browser raises part-way (the driver does not start, the browser
\* does not launch, no context or page): the call is before the try of
\* scrape_all_stations, so the finally clause does not run
CreateBrowserFails ==
    /\ pc = "init"
    /\ pc' = "raised"
    /\ resources' \in PartlyStarted
    /\ UNCHANGED <<validation_errors, output_json, files>>
    /\ UNCHANGED <<stations, target_count, i, properties, station_properties,
                   current_station, current_url, page_count, attempt, shown,
                   result, yielded, fetched, first_failed, gateVars,
                   page_request_type, twiceVars>>

Next ==
    \/ CreateBrowser
    \/ StationLoopExit
    \/ StationStart
    \/ StationUnknown
    \/ PageLoopEnter
    \/ PageLoopExit
    \/ Paced
    \/ GotoOk
    \/ GotoRetry
    \/ BackoffDone
    \/ GotoExhausted
    \/ Extract
    \/ NextLink
    \/ PageWaitDone
    \/ StationEnd
    \/ StationReturn
    \/ StationWaitDone
    \/ NextStation
    \/ Finish

Spec == Init /\ [][Next]_vars

\* the event loop resumes the session whenever it can go on: every sleep
\* ends and every page.goto returns or raises within its timeout
SpecLive == Init /\ [][Next]_vars /\ WF_vars(Next)

\* ------------------------------------------------------------ two sessions
\* a site that answers the same way whenever it is asked the same thing: the
\* elements and the next-page link of every listing page, per station URL
\* the number of attempts of a request that fail before one succeeds, and
\* what the browser shows after a request was given up
FailingCounts == {0, 1, max_retries + 1}

Sites ==
    [els : ElementLists, next : BOOLEAN,
     failing : [KnownStations -> FailingCounts],
     after_failure : {"same", "error"}]

\* the steps of a session on the site: page.goto, the element queries of
\* scrape_page and the link query of get_next_page_url answer as site says
SiteServes ==
    /\ pc = "goto" =>
          IF attempt < site.failing[current_url.st]
          THEN /\ pc' # "extract"
               /\ attempt = max_retries =>
                     shown' = IF site.after_failure = "same" THEN shown ELSE ErrorDoc
          ELSE /\ pc' = "extract"
               /\ shown' = Listing(current_url, site.next)
    /\ pc = "extract" => ExtractWith(site.els)
    /\ pc = "next_link" => current_url' = NextHref

TwiceInit ==
    /\ stations \in StationLists
    /\ target_count \in 0..MaxQuota
    /\ pc = "init"
    /\ i = 1
    /\ properties = << >>
    /\ station_properties = << >>
    /\ current_station = "none"
    /\ current_url = NoUrl
    /\ page_count = 0
    /\ attempt = 0
    /\ shown = Blank
    /\ result = NoResult
    /\ yielded = 0
    /\ fetched = {}
    /\ first_failed = {}
    /\ page_request_type = "none"
    /\ MainIdle
    /\ site \in Sites
    /\ run = 1
    /\ first_result = NoResult
    /\ GateIdle

\* scrape_all_stations called a second time on the scraper of the first
\* session, whose accumulator is not emptied
NewSessionSameScraper ==
    /\ pc = "done"
    /\ run = 1
    /\ first_result' = result
    /\ run' = 2
    /\ pc' = "init"
    /\ i' = 1
    /\ station_properties' = << >>
    /\ current_url' = NoUrl
    /\ page_count' = 0
    /\ attempt' = 0
    /\ shown' = Blank
    /\ result' = NoResult
    /\ yielded' = 0
    /\ fetched' = {}
    /\ first_failed' = {}
    /\ page_request_type' = "none"
    /\ UNCHANGED <<stations, target_count, site, properties, current_station,
                   gateVars, mainVars>>

\* the first session has returned; a scraper is constructed for the same
\* stations and quota (__init__: self.properties = [], current_station = None)
\* and its session starts
NewSession ==
    /\ pc = "done"
    /\ run = 1
    /\ first_result' = result
    /\ run' = 2
    /\ properties' = << >>
    /\ current_station' = "none"
    /\ pc' = "init"
    /\ i' = 1
    /\ station_properties' = << >>
    /\ current_url' = NoUrl
    /\ page_count' = 0
    /\ attempt' = 0
    /\ shown' = Blank
    /\ result' = NoResult
    /\ yielded' = 0
    /\ fetched' = {}
    /\ first_failed' = {}
    /\ page_request_type' = "none"
    /\ UNCHANGED <<stations, target_count, site, gateVars, mainVars>>

TwiceNext ==
    \/ CreateBrowser
    \/ StationLoopExit
    \/ StationStart
    \/ StationUnknown
    \/ PageLoopEnter
    \/ PageLoopExit
    \/ Paced
    \/ GotoOk /\ SiteServes
    \/ GotoRetry /\ SiteServes
    \/ BackoffDone
    \/ GotoExhausted /\ SiteServes
    \/ Extract /\ SiteServes
    \/ NextLink /\ SiteServes
    \/ PageWaitDone
    \/ StationEnd
    \/ StationReturn
    \/ StationWaitDone
    \/ NextStation
    \/ Finish
    \/ NewSession

SpecTwice == TwiceInit /\ [][TwiceNext]_vars

\* ------------------------------------------------------------------ export
\* main: the scraper is built from the command line, where --output-json
\* may name the JSON file
MainInit ==
    /\ stations \in StationLists
    /\ target_count \in 0..MaxQuota
    /\ pc = "init"
    /\ i = 1
    /\ properties = << >>
    /\ station_properties = << >>
    /\ current_station = "none"
    /\ current_url = NoUrl
    /\ page_count = 0
    /\ attempt = 0
    /\ shown = Blank
    /\ result = NoResult
    /\ yielded = 0
    /\ fetched = {}
    /\ first_failed = {}
    /\ page_request_type = "none"
    /\ resources = {}
    /\ validation_errors = 0
    /\ output_json \in BOOLEAN
    /\ files = {}
    /\ SingleSession
    /\ GateIdle

\* main: "if result and result.properties"
HasData == result.kind = "ScrapingResult" /\ result.properties # << >>

\* save_to_json(result, args.output_json): stations_str is bound only in the
\* branch "if filename is None"; the data file is written, then the name of
\* the validation-error file is formatted with stations_str
stations_str_bound == ~output_json

SaveToJson ==
    /\ pc = "done"
    /\ HasData
    /\ IF validation_errors = 0
       THEN /\ files' = files \cup {"json"}
            /\ pc' = "json_saved"
       ELSE IF stations_str_bound
       THEN /\ files' = files \cup {"json", "validation_errors"}
            /\ pc' = "json_saved"
       ELSE /\ files' = files \cup {"json"}
            /\ pc' = "export_raised"
    /\ UNCHANGED <<stations, target_count, i, properties, station_properties,
                   current_station, current_url, page_count, attempt, shown,
                   result, yielded, fetched, first_failed, gateVars,
                   page_request_type, twiceVars, resources, validation_errors,
                   output_json>>

\* save_to_csv(args.output_csv)
SaveToCsv ==
    /\ pc = "json_saved"
    /\ files' = files \cup {"csv"}
    /\ pc' = "exported"
    /\ UNCHANGED <<stations, target_count, i, properties, station_properties,
                   current_station, current_url, page_count, attempt, shown,
                   result, yielded, fetched, first_failed, gateVars,
                   page_request_type, twiceVars, resources, validation_errors,
                   output_json>>

\* main: no result or no property, a warning is logged and nothing is saved
NoData ==
    /\ pc = "done"
    /\ ~HasData
    /\ pc' = "no_data"
    /\ UNCHANGED <<stations, target_count, i, properties, station_properties,
                   current_station, current_url, page_count, attempt, shown,
                   result, yielded, fetched, first_failed, gateVars,
                   page_request_type, twiceVars, mainVars>>

MainNext ==
    \/ Next
    \/ ExtractInvalid
    \/ SaveToJson
    \/ SaveToCsv
    \/ NoData

SpecMain == MainInit /\ [][MainNext]_vars

\* --------------------------------- SuumoPlaywrightScraper.scrape_station
\* the crawler without the gate: scrape_station(stations[1]) called on a new
\* scraper, whose page loop is "while current_url:" and whose page_count is
\* only logged
PlainInit ==
    /\ stations \in StationLists
    /\ target_count \in 0..MaxQuota
    /\ pc = "plain_start"
    /\ i = 1
    /\ properties = << >>
    /\ station_properties = << >>
    /\ current_station = "none"
    /\ current_url = NoUrl
    /\ page_count = 0
    /\ attempt = 0
    /\ shown = Blank
    /\ result = NoResult
    /\ yielded = 0
    /\ fetched = {}
    /\ first_failed = {}
    /\ page_request_type = "none"
    /\ MainIdle
    /\ SingleSession
    /\ GateIdle

\* self.current_station = station_name; search_url = get_station_url(...)
PlainStart ==
    /\ pc = "plain_start"
    /\ Resolves(stations[i])
    /\ current_station' = stations[i]
    /\ current_url' = get_station_url(stations[i])
    /\ page_count' = 0
    /\ station_properties' = << >>
    /\ pc' = "plain_loop"
    /\ UNCHANGED <<stations, target_count, i, properties, attempt, shown,
                   result, yielded, fetched, first_failed, gateVars, page_request_type,
                   twiceVars, mainVars>>

\* get_station_url raises ValueError -> return []
PlainUnknown ==
    /\ pc = "plain_start"
    /\ ~Resolves(stations[i])
    /\ current_station' = stations[i]
    /\ station_properties' = << >>
    /\ pc' = "plain_returned"
    /\ UNCHANGED <<stations, target_count, i, properties, current_url,
                   page_count, attempt, shown, result, yielded, fetched,
                   first_failed, gateVars, page_request_type,
                   twiceVars, mainVars>>

\* head of "while current_url:"
PlainLoopEnter ==
    /\ pc = "plain_loop"
    /\ current_url # NoUrl
    /\ pc' = "plain_page"
    /\ UNCHANGED <<stations, target_count, i, properties, station_properties,
                   current_station, current_url, page_count, attempt, shown,
                   result, yielded, fetched, first_failed, gateVars, page_request_type,
                   twiceVars, mainVars>>

\* the loop is left, by its condition or by the break: the station name is
\* set on every property and the list is returned
PlainLoopExit ==
    /\ \/ pc = "plain_loop" /\ current_url = NoUrl
       \/ pc = "plain_break"
    /\ station_properties' = TagAll(station_properties, current_station)
    /\ pc' = "plain_returned"
    /\ UNCHANGED <<stations, target_count, i, properties, current_station,
                   current_url, page_count, attempt, shown, result, yielded,
                   fetched, first_failed, gateVars, page_request_type,
                   twiceVars, mainVars>>

\* lines 308-321: extend station_properties with the page's list, cut and
\* break once the quota is reached, else go on to the next-page link
PlainAfterPage(page_properties) ==
    LET sp == station_properties \o page_properties
        total_rooms == RoomCount(properties) + RoomCount(sp)
    IN  IF total_rooms >= target_count
        THEN /\ station_properties' =
                    limit_properties(sp, target_count - RoomCount(properties))
             /\ pc' = "plain_break"
        ELSE /\ station_properties' = sp
             /\ pc' = "plain_next"

\* scrape_page(current_url) loads the document and extracts its elements
PlainScrapePage ==
    /\ pc = "plain_page"
    /\ \E nx \in BOOLEAN, els \in ElementLists :
          /\ shown' = Listing(current_url, nx)
          /\ PlainAfterPage(ScrapeLoop(els, 1, properties, current_url.st,
                                       <<i, page_count + 1>>, target_count))
    /\ fetched' = fetched \cup {current_station}
    /\ UNCHANGED <<stations, target_count, i, properties, current_station,
                   current_url, page_count, attempt, result, yielded,
                   first_failed, gateVars, page_request_type,
                   twiceVars, mainVars>>

\* scrape_page(current_url): page.goto or a query raises, the exception is
\* caught inside scrape_page and [] is returned
PlainScrapePageFails ==
    /\ pc = "plain_page"
    /\ shown' \in AfterFailedGoto
    /\ PlainAfterPage(<< >>)
    /\ fetched' = fetched \cup {current_station}
    /\ UNCHANGED <<stations, target_count, i, properties, current_station,
                   current_url, page_count, attempt, result, yielded,
                   first_failed, gateVars, page_request_type,
                   twiceVars, mainVars>>

\* current_url = await self.get_next_page_url(); page_count += 1 (the count
\* is only logged: it is followed up to MaxLoggedPages)
PlainNextLink ==
    /\ pc = "plain_next"
    /\ \E raised \in BOOLEAN :
          current_url' = IF raised THEN NoUrl ELSE NextHref
    /\ page_count' = IF page_count < MaxLoggedPages THEN page_count + 1
                                                    ELSE page_count
    /\ pc' = IF current_url' # NoUrl THEN "plain_wait" ELSE "plain_loop"
    /\ UNCHANGED <<stations, target_count, i, properties, station_properties,
                   current_station, attempt, shown, result, yielded, fetched,
                   first_failed, gateVars, page_request_type,
                   twiceVars, mainVars>>

\* page.wait_for_timeout(3000) between two pages is over
PlainWaitDone ==
    /\ pc = "plain_wait"
    /\ pc' = "plain_loop"
    /\ UNCHANGED <<stations, target_count, i, properties, station_properties,
                   current_station, current_url, page_count, attempt, shown,
                   result, yielded, fetched, first_failed, gateVars, page_request_type,
                   twiceVars, mainVars>>

PlainNext ==
    \/ PlainStart
    \/ PlainUnknown
    \/ PlainLoopEnter
    \/ PlainLoopExit
    \/ PlainScrapePage
    \/ PlainScrapePageFails
    \/ PlainNextLink
    \/ PlainWaitDone

\* every step that can be taken is taken in the end: the event loop runs
\* the coroutine whenever its await is over
SpecPlain == PlainInit /\ [][PlainNext]_vars /\ WF_vars(PlainNext)

\* ----------------------------------------------------------- cancellation
\* positions at which the session coroutine is suspended in an await:
\* create_browser, wait_for_request, page.goto, the back-off sleep, the sleep
\* and the queries of scrape_page, the sleep of get_next_page_url, the waits
\* between pages and between stations
SuspensionPcs ==
    {"init", "pace", "goto", "backoff", "extract", "next_link", "page_wait",
     "station_wait"}

\* a cancellation that first hands the station's local list to the accumulator
CancelFlushingStation ==
    /\ pc \in SuspensionPcs
    /\ pc' = "cancelled"
    /\ properties' = properties \o station_properties
    /\ shown' = Blank
    /\ resources' \in (IF pc = "init" THEN PartlyStarted ELSE {close_browser})
    /\ UNCHANGED <<validation_errors, output_json, files>>
    /\ UNCHANGED <<stations, target_count, i, station_properties,
                   current_station, current_url, page_count, attempt, result,
                   yielded, fetched, first_failed, gateVars,
                   page_request_type, twiceVars>>

\* the task is cancelled while suspended: CancelledError is no Exception, so
\* no handler of the session catches it; inside the try, the finally clause
\* of scrape_all_stations closes the browser; in create_browser, which is
\* awaited before the try, what was started stays. The error leaves the
\* session, the locals of scrape_station are lost, self.properties stays.
Cancel ==
    /\ pc \in SuspensionPcs
    /\ pc' = "cancelled"
    /\ shown' = Blank
    /\ resources' \in (IF pc = "init" THEN PartlyStarted ELSE {close_browser})
    /\ UNCHANGED <<validation_errors, output_json, files>>
    /\ UNCHANGED <<stations, target_count, i, properties, station_properties,
                   current_station, current_url, page_count, attempt, result,
                   yielded, fetched, first_failed, gateVars,
                   page_request_type, twiceVars>>

CancelNext ==
    \/ Next
    \/ Cancel

\* the session with every way of leaving it: return, cancellation, a failure
\* of create_browser
BrowserNext ==
    \/ Next
    \/ Cancel
    \/ CreateBrowserFails

SpecBrowser == Init /\ [][BrowserNext]_vars

SpecCancel == Init /\ [][CancelNext]_vars

\* ------------------------------------------------------------------ gate
GateInit ==
    /\ config \in GateConfigs
    /\ now = Epoch
    /\ semaphore = config.concurrent_limit
    /\ last_request_time = 0
    /\ request_count = 0
    /\ task = [p \in Callers |-> IdleTask]
    /\ request_times = << >>
    /\ success_count = 0
    /\ error_count = 0
    /\ record_calls = [flag \in BOOLEAN |-> 0]
    /\ recorded_times = << >>
    /\ pacer_obs = NoObs
    /\ stations = <<"A">>
    /\ target_count = 0
    /\ pc = "init"
    /\ i = 1
    /\ properties = << >>
    /\ station_properties = << >>
    /\ current_station = "none"
    /\ current_url = NoUrl
    /\ page_count = 0
    /\ attempt = 0
    /\ shown = Blank
    /\ result = NoResult
    /\ yielded = 0
    /\ fetched = {}
    /\ first_failed = {}
    /\ page_request_type = "none"
    /\ MainIdle
    /\ SingleSession

\* the clock advances
Tick ==
    /\ now < Epoch + MaxTicks
    /\ now' = now + 1
    /\ UNCHANGED <<config, semaphore, last_request_time, request_count, task,
                   request_times, success_count, error_count, record_calls, recorded_times, pacer_obs,
                   crawlVars>>

\* the delays wait_for_request may require for a request type
RequiredDelays(request_type) ==
    IF request_type = "page" THEN {config.page_delay}
    ELSE IF request_type = "station" THEN {config.station_delay}
    ELSE config.min_delay..config.max_delay

\* the cutoff of record_request keeping an entry that is just one hour old
RecordTimesInclusive ==
    SelectSeq(Append(request_times, now), LAMBDA t : t >= now - Retention)

\* RequestMonitor.record_request(success): the three fields after the call
RecordTimes == SelectSeq(Append(request_times, now), LAMBDA t : t > now - Retention)

\* record_request counting every outcome as a success
record_request_all_success(success) ==
    /\ request_times' = RecordTimes
    /\ success_count' = success_count + 1
    /\ error_count' = error_count

record_request(success) ==
    /\ request_times' = RecordTimes
    /\ success_count' = IF success THEN success_count + 1 ELSE success_count
    /\ error_count' = IF success THEN error_count ELSE error_count + 1

\* RequestMonitor.get_stats(); success_rate is the quotient num / den
get_stats ==
    LET total == success_count + error_count IN
    [total_requests |-> total,
     success_count |-> success_count,
     error_count |-> error_count,
     success_rate |-> IF total > 0
                      THEN [num |-> success_count, den |-> total]
                      ELSE [num |-> 0, den |-> 1]]

\* RequestMonitor.get_request_rate(window_seconds), the quotient num / den
get_request_rate(window_seconds) ==
    LET cutoff_time == now - window_seconds
        recent_requests == SelectSeq(request_times, LAMBDA t : t > cutoff_time)
    IN  [num |-> Len(recent_requests), den |-> window_seconds]

\* one more call record_request(success) has been made
Called(success) ==
    /\ record_calls' = [record_calls EXCEPT ![success] = @ + 1]
    /\ recorded_times' = Append(recorded_times, now)

\* lines 58-59 of wait_for_request, the release of the semaphore, the return
\* to make_request and the first invocation of the operation by
\* execute_with_retry (no await lies between them); slots is the number of
\* free slots before the release. The locals of wait_for_request end here.
\* pacer_obs notes the delay this call had to keep and the time since the
\* previous return of wait_for_request (the old last_request_time).
PacedAndStarted(p, t, slots) ==
    /\ last_request_time' = now
    /\ request_count' = request_count + 1
    /\ semaphore' = slots + 1
    /\ pacer_obs' = [gap |-> now - last_request_time,
                     required |-> t.required_delay, seen |-> request_count > 0]
    /\ task' = [task EXCEPT ![p] =
                   [IdleTask EXCEPT !.pc = "running", !.attempt = 0, !.calls = 1]]

\* calls of make_request begun so far: the recorded ones and those under way
CallsBegun ==
    success_count + error_count
        + Cardinality({ q \in Callers : task[q].pc \notin {"idle", "done"} })

\* a caller enters make_request(func, request_type), for the first time or
\* after its previous call has finished
Call(p) ==
    /\ task[p].pc \in {"idle", "done"}
    /\ CallsBegun < MaxRequests
    /\ \E rt \in RequestTypes :
          task' = [task EXCEPT ![p] =
                      [IdleTask EXCEPT !.pc = "acquire", !.request_type = rt]]
    /\ UNCHANGED <<config, now, semaphore, last_request_time, request_count,
                   request_times, success_count, error_count, record_calls, recorded_times, pacer_obs,
                   crawlVars>>

\* "async with self._semaphore" gets a slot; elapsed < required_delay:
\* the caller sleeps for the remainder, holding the slot
AcquireAndSleep(p) ==
    /\ task[p].pc = "acquire"
    /\ semaphore > 0
    /\ \E required_delay \in RequiredDelays(task[p].request_type) :
          LET elapsed == now - last_request_time IN
          /\ elapsed < required_delay
          /\ task' = [task EXCEPT ![p] =
                         [@ EXCEPT !.pc = "sleep", !.required_delay = required_delay,
                                   !.wake = now + (required_delay - elapsed)]]
    /\ semaphore' = semaphore - 1
    /\ UNCHANGED <<config, now, last_request_time, request_count,
                   request_times, success_count, error_count, record_calls, recorded_times, pacer_obs,
                   crawlVars>>

\* "async with self._semaphore" gets a slot; elapsed >= required_delay:
\* no sleep, wait_for_request returns at once
AcquireNoSleep(p) ==
    /\ task[p].pc = "acquire"
    /\ semaphore > 0
    /\ \E required_delay \in RequiredDelays(task[p].request_type) :
          LET elapsed == now - last_request_time IN
          /\ elapsed >= required_delay
          /\ PacedAndStarted(p, [task[p] EXCEPT !.required_delay = required_delay],
                             semaphore - 1)
    /\ UNCHANGED <<config, now, request_times, success_count, error_count, record_calls, recorded_times,
                   crawlVars>>

\* asyncio.sleep(wait_time) of wait_for_request is over
WakeUp(p) ==
    /\ task[p].pc = "sleep"
    /\ now >= task[p].wake
    /\ PacedAndStarted(p, task[p], semaphore)
    /\ UNCHANGED <<config, now, request_times, success_count, error_count, record_calls, recorded_times,
                   crawlVars>>

\* "if attempt == self.config.max_retries" taken one attempt early
IsLastAttemptEarly(a) == a >= config.max_retries - 1

\* "if attempt == self.config.max_retries"
IsLastAttempt(a) == a = config.max_retries

\* a success that does not leave the retry loop before the last attempt
OpSucceedsNoReturn(p) ==
    /\ task[p].pc = "running"
    /\ IF task[p].attempt < config.max_retries
       THEN /\ task' = [task EXCEPT ![p] = [@ EXCEPT !.pc = "backoff"]]
            /\ UNCHANGED <<request_times, success_count, error_count, record_calls, recorded_times>>
       ELSE /\ task' = [task EXCEPT ![p] =
                   [@ EXCEPT !.pc = "done",
                             !.outcome = [kind |-> "returned", of |-> task[p].attempt]]]
            /\ record_request(TRUE)
            /\ Called(TRUE)
    /\ UNCHANGED <<config, now, semaphore, last_request_time, request_count,
                   pacer_obs, crawlVars>>

\* the operation returns a value: execute_with_retry returns it,
\* make_request records the success and returns it
OpSucceeds(p) ==
    /\ task[p].pc = "running"
    /\ task' = [task EXCEPT ![p] =
                   [@ EXCEPT !.pc = "done",
                             !.outcome = [kind |-> "returned", of |-> task[p].attempt]]]
    /\ record_request(TRUE)
    /\ Called(TRUE)
    /\ UNCHANGED <<config, now, semaphore, last_request_time, request_count,
                   pacer_obs, crawlVars>>

\* 2 ** k
RECURSIVE Pow2(_)
Pow2(k) == IF k = 0 THEN 1 ELSE 2 * Pow2(k - 1)

\* random.uniform(0.5, 1.5), in halves
Jitters == {1, 2, 3}

\* the back-off wait without the doubling
BackoffWaitsFlat(attempt_no) ==
    { (config.retry_delay * jitter) \div 2 : jitter \in Jitters }

\* wait_time = retry_delay * (2 ** attempt); actual_wait = wait_time * jitter
BackoffWaits(attempt_no) ==
    LET wait_time == config.retry_delay * Pow2(attempt_no) IN
    { (wait_time * jitter) \div 2 : jitter \in Jitters }

\* the operation raises and attempt < max_retries: sleep actual_wait
OpFailsRetry(p) ==
    /\ task[p].pc = "running"
    /\ ~IsLastAttempt(task[p].attempt)
    /\ \E actual_wait \in BackoffWaits(task[p].attempt) :
          task' = [task EXCEPT ![p] =
                      [@ EXCEPT !.pc = "backoff", !.fails = @ + 1,
                                !.last_exception = task[p].attempt,
                                !.actual_wait = actual_wait, !.sleeps = @ + 1]]
    /\ UNCHANGED <<config, now, semaphore, last_request_time, request_count,
                   request_times, success_count, error_count, record_calls, recorded_times, pacer_obs,
                   crawlVars>>

\* the error execute_with_retry raises when the last attempt failed with e
\* ("raise e" at line 86)
RaisedError(t, e) == e

\* a terminal failure that reaches the caller without being recorded
OpFailsLastUnrecorded(p) ==
    /\ task[p].pc = "running"
    /\ IsLastAttempt(task[p].attempt)
    /\ task' = [task EXCEPT ![p] =
                   [@ EXCEPT !.pc = "done", !.fails = @ + 1,
                             !.last_exception = task[p].attempt,
                             !.outcome = [kind |-> "raised",
                                          of |-> RaisedError(task[p], task[p].attempt)]]]
    /\ UNCHANGED <<config, now, semaphore, last_request_time, request_count,
                   request_times, success_count, error_count, record_calls, recorded_times,
                   pacer_obs, crawlVars>>

\* the operation raises and attempt == max_retries: execute_with_retry
\* re-raises, make_request records the failure and re-raises
OpFailsLast(p) ==
    /\ task[p].pc = "running"
    /\ IsLastAttempt(task[p].attempt)
    /\ task' = [task EXCEPT ![p] =
                   [@ EXCEPT !.pc = "done", !.fails = @ + 1,
                             !.last_exception = task[p].attempt,
                             !.outcome = [kind |-> "raised",
                                          of |-> RaisedError(task[p], task[p].attempt)]]]
    /\ record_request(FALSE)
    /\ Called(FALSE)
    /\ UNCHANGED <<config, now, semaphore, last_request_time, request_count,
                   pacer_obs, crawlVars>>

\* asyncio.sleep(actual_wait) is over: the for loop invokes the operation
\* again; actual_wait is not read any more
Retry(p) ==
    /\ task[p].pc = "backoff"
    /\ task' = [task EXCEPT ![p] =
                   [@ EXCEPT !.pc = "running", !.attempt = @ + 1, !.calls = @ + 1,
                             !.actual_wait = 0]]
    /\ UNCHANGED <<config, now, semaphore, last_request_time, request_count,
                   request_times, success_count, error_count, record_calls, recorded_times, pacer_obs,
                   crawlVars>>

GateNext ==
    \/ Tick
    \/ \E p \in Callers : Call(p)
    \/ \E p \in Callers : AcquireAndSleep(p)
    \/ \E p \in Callers : AcquireNoSleep(p)
    \/ \E p \in Callers : WakeUp(p)
    \/ \E p \in Callers : OpSucceeds(p)
    \/ \E p \in Callers : OpFailsRetry(p)
    \/ \E p \in Callers : OpFailsLast(p)
    \/ \E p \in Callers : Retry(p)

SpecGate == GateInit /\ [][GateNext]_vars

\* ------------------------------------------------- cancellation in the gate
\* a call cancelled inside wait_for_request that keeps its slot
CancelCallLeaks(p) ==
    /\ task[p].pc \in {"acquire", "sleep"}
    /\ task' = [task EXCEPT ![p] =
                   [IdleTask EXCEPT !.pc = "done",
                       !.outcome = [kind |-> "cancelled",
                                    of |-> IF task[p].pc = "sleep" THEN 1 ELSE 0]]]
    /\ UNCHANGED <<config, now, semaphore, last_request_time, request_count,
                   request_times, success_count, error_count, record_calls,
                   recorded_times, pacer_obs, crawlVars>>

\* the caller's task is cancelled inside wait_for_request: while it waits for
\* a slot it holds none; while it sleeps, leaving "async with" releases its
\* slot. The outcome notes whether a slot was held (of = 1).
CancelCall(p) ==
    /\ task[p].pc \in {"acquire", "sleep"}
    /\ semaphore' = IF task[p].pc = "sleep" THEN semaphore + 1 ELSE semaphore
    /\ task' = [task EXCEPT ![p] =
                   [IdleTask EXCEPT !.pc = "done",
                       !.outcome = [kind |-> "cancelled",
                                    of |-> IF task[p].pc = "sleep" THEN 1 ELSE 0]]]
    /\ UNCHANGED <<config, now, last_request_time, request_count,
                   request_times, success_count, error_count, record_calls,
                   recorded_times, pacer_obs, crawlVars>>

GateCancelNext ==
    \/ GateNext
    \/ \E p \in Callers : CancelCall(p)

SpecGateCancel == GateInit /\ [][GateCancelNext]_vars

\* ---------------------------------------------------------------- monitor
\* the RequestMonitor alone, called at any times
MonitorInit ==
    /\ GateInit
    /\ config = [concurrent_limit |-> 1, max_retries |-> 0, min_delay |-> 1,
                 max_delay |-> MaxDelay, page_delay |-> 1,
                 station_delay |-> MaxDelay, retry_delay |-> 2]

\* the times that may pass between two calls of the monitor
Pauses == {Retention \div 2, Retention - 1, Retention}

\* time passes
MonitorWait ==
    /\ \E pause \in Pauses :
          /\ now + pause <= Epoch + MaxHours * Retention
          /\ now' = now + pause
    /\ UNCHANGED <<config, semaphore, last_request_time, request_count, task,
                   request_times, success_count, error_count, record_calls,
                   recorded_times, pacer_obs, crawlVars>>

\* self.monitor.record_request(success, response_time)
MonitorRecord ==
    /\ Len(recorded_times) < MaxRecords
    /\ \E success \in BOOLEAN :
          /\ record_request(success)
          /\ Called(success)
    /\ UNCHANGED <<config, now, semaphore, last_request_time, request_count,
                   task, pacer_obs, crawlVars>>

MonitorNext ==
    \/ MonitorWait
    \/ MonitorRecord

SpecMonitor == MonitorInit /\ [][MonitorNext]_vars

\* ================================================================ claims
\* the rooms the session holds, accepted or still local to scrape_station
Held == properties \o station_properties

\* the running total of rooms has reached the quota
QuotaReached == RoomCount(Held) >= target_count

\* positions at which a page request is being paced, issued or read
FetchPcs == {"pace", "goto", "backoff", "extract"}

TagsOf(props) == { props[k].station_name : k \in 1..Len(props) }

\* C1: the rooms held in self.properties never exceed target_count, and a
\* returned ScrapingResult holds at most target_count rooms.
C1_QuotaNeverExceeded ==
    /\ RoomCount(properties) <= target_count
    /\ result.kind = "ScrapingResult" => RoomCount(result.properties) <= target_count

\* a session that extracted more rooms than the quota and returned a cut result
C1_Witness ==
    /\ pc = "done"
    /\ yielded > target_count
    /\ result.kind = "ScrapingResult"
    /\ RoomCount(result.properties) = target_count

\* C2: when the pages crawled yielded at least target_count rooms, the session
\* returns a result that holds exactly target_count rooms.
C2_ExactQuota ==
    (pc = "done" /\ yielded >= target_count)
        => /\ result.kind = "ScrapingResult"
           /\ RoomCount(result.properties) = target_count

\* C3: once the running total has reached the quota it stays reached, no
\* page request is paced, issued or read any more, and no further station
\* gets a fetch.
C3_NoFetchAfterQuota ==
    [][QuotaReached => (QuotaReached' /\ fetched' = fetched /\ pc' \notin FetchPcs)]_vars

\* two known stations, the quota filled by the first: the second never fetched
C3_Witness ==
    /\ pc = "done"
    /\ Len(stations) = 2
    /\ stations[2] \in KnownStations
    /\ target_count > 0
    /\ QuotaReached
    /\ fetched = {stations[1]}

\* C4: a station whose first-page request exhausted its retries has no record
\* in the accumulator or in the result.
C4_FailedFirstPageContributesNothing ==
    \A s \in first_failed :
        /\ s \notin TagsOf(properties)
        /\ s \notin TagsOf(result.properties)

\* C5: for a station the resolver does not know no page is fetched, no record
\* carries its name, and the session goes on to the following stations: it
\* ends only with the quota reached or the list exhausted.
C5_UnknownStationSkipped ==
    /\ \A x \in UnknownStations :
          /\ x \notin fetched
          /\ x \notin TagsOf(Held)
          /\ x \notin TagsOf(result.properties)
    /\ (current_station \in UnknownStations /\ i <= Len(stations)
           /\ stations[i] = current_station) => pc \notin FetchPcs
    /\ pc \in {"finish", "done"} =>
          (RoomCount(properties) >= target_count \/ i = Len(stations) + 1)

\* an unknown station first, then a known one whose records are in the result
C5_Witness ==
    /\ pc = "done"
    /\ Len(stations) = 2
    /\ stations[1] \in UnknownStations
    /\ result.kind = "ScrapingResult"
    /\ stations[2] \in TagsOf(result.properties)

\* a comes before b in the order the session met the elements
MetBefore(a, b) ==
    \/ a.si < b.si
    \/ a.si = b.si /\ a.pn < b.pn
    \/ a.si = b.si /\ a.pn = b.pn /\ a.ix < b.ix

\* props keeps the order of meeting, without repetition; each record keeps
\* its rooms in on-page order from the first; only the last may be cut
OrderedPrefix(props) ==
    /\ \A k \in 1..Len(props) - 1 : MetBefore(props[k], props[k + 1])
    /\ \A k \in 1..Len(props) :
          /\ props[k].rooms = Iota(Len(props[k].rooms))
          /\ Len(props[k].rooms) <= props[k].orig
          /\ k < Len(props) => Len(props[k].rooms) = props[k].orig

\* C6: the records are held in the order stations, pages and elements were
\* visited, none twice; accepted records carry the name of the station of
\* their loop index, so station names follow the caller's order; the rooms
\* held are the first min(yielded, target_count) rooms of those extracted.
C6_OrderPreserved ==
    /\ OrderedPrefix(Held)
    /\ OrderedPrefix(result.properties)
    /\ \A k \in 1..Len(properties) :
          properties[k].station_name = stations[properties[k].si]
    /\ RoomCount(Held) = IF yielded < target_count THEN yielded ELSE target_count
    /\ pc = "done" => result.properties = properties

\* records of two stations in the result, the last request having been retried
C6_Witness ==
    /\ pc = "done"
    /\ Len(result.properties) >= 2
    /\ result.properties[1].station_name # result.properties[2].station_name
    /\ attempt > 0

\* C7: a call whose operation failed on every attempt invoked it exactly
\* max_retries + 1 times and raised the error of the last attempt; after
\* that nothing is invoked until the caller begins a new call.
C7_ExhaustedRetries ==
    /\ [](\A p \in Callers :
            task[p].outcome.kind = "raised" =>
               /\ task[p].calls = config.max_retries + 1
               /\ task[p].fails = task[p].calls
               /\ task[p].outcome.of = config.max_retries)
    /\ [][\A p \in Callers :
            task[p].outcome.kind = "raised" =>
               (task'[p] = task[p] \/ task'[p].pc = "acquire")]_vars

\* a call that raised after three invocations
C7_Witness ==
    \E p \in Callers :
        /\ task[p].outcome.kind = "raised"
        /\ config.max_retries = 2
        /\ task[p].calls = 3

\* C8: a call whose operation failed f times and then succeeded returned the
\* value of invocation f + 1, after exactly f + 1 invocations; after the
\* success nothing is invoked until the caller begins a new call.
C8_SuccessAfterFailures ==
    /\ [](\A p \in Callers :
            task[p].outcome.kind = "returned" =>
               /\ task[p].fails <= config.max_retries
               /\ task[p].calls = task[p].fails + 1
               /\ task[p].outcome.of = task[p].fails)
    /\ [][\A p \in Callers :
            task[p].outcome.kind = "returned" =>
               (task'[p] = task[p] \/ task'[p].pc = "acquire")]_vars

\* a call that returned after max_retries failures, max_retries > 0
C8_Witness ==
    \E p \in Callers :
        /\ task[p].outcome.kind = "returned"
        /\ config.max_retries > 0
        /\ task[p].fails = config.max_retries

\* C9: wait_for_request never returns before the delay required for its
\* request type has passed since its previous return.
C9_MinimumDelayKept ==
    pacer_obs.seen => pacer_obs.gap >= pacer_obs.required

\* callers whose operation (with its retries) is in flight
InFlight == { p \in Callers : task[p].pc \in {"running", "backoff"} }

\* callers that should hold a slot: from pacing until the outcome is recorded
InGate == { p \in Callers : task[p].pc \in {"sleep", "running", "backoff"} }

\* C10: a slot is held from before pacing until the outcome is recorded, so
\* at most concurrent_limit operations are in flight.
C10_SlotHeldDuringOperation ==
    /\ semaphore = config.concurrent_limit - Cardinality(InGate)
    /\ Cardinality(InFlight) <= config.concurrent_limit

\* calls of record_request so far
RecordCalls == record_calls[TRUE] + record_calls[FALSE]

\* C11: get_stats reports total_requests = success_count + error_count and
\* success_rate = success_count / (success_count + error_count), 0 when no
\* outcome has been recorded; the two counts are the numbers of
\* record_request calls made with True and with False.
C11_StatsMatchRecordedCalls ==
    /\ get_stats.total_requests = get_stats.success_count + get_stats.error_count
    /\ get_stats.success_count = record_calls[TRUE]
    /\ get_stats.error_count = record_calls[FALSE]
    /\ get_stats.success_rate.den > 0
    /\ IF RecordCalls = 0
       THEN get_stats.success_rate.num = 0
       ELSE get_stats.success_rate.num * RecordCalls
                = record_calls[TRUE] * get_stats.success_rate.den

\* one success and two failures recorded
C11_Witness ==
    /\ record_calls[TRUE] = 1
    /\ record_calls[FALSE] = 2
    /\ get_stats.total_requests = 3
    /\ get_stats.success_rate = [num |-> 1, den |-> 3]

C13_ResultObjectAlways ==
    pc = "done" =>
        /\ result.kind = "ScrapingResult"
        /\ result.properties = properties
        /\ "validation_errors" \in DOMAIN result

\* s is a prefix of t
IsPrefix(s, t) == Len(s) <= Len(t) /\ SubSeq(t, 1, Len(s)) = s

\* C14: a session cancelled at a suspension point leaves self.properties as
\* it was, every record in it tagged with a station of the list, its rooms
\* within the quota, in the order of the visit with whole records but for
\* the last; the accumulator only grows at its end and is what a session
\* that completes returns, so what a cancelled session holds is a prefix of
\* what any continuation of it would have returned.
C14_CancelledAccumulatorValid ==
    /\ [](pc = "cancelled" =>
            /\ \A k \in 1..Len(properties) :
                  properties[k].station_name = stations[properties[k].si]
            /\ RoomCount(properties) <= target_count
            /\ OrderedPrefix(properties)
            /\ result = NoResult)
    /\ [](pc = "done" => result.properties = properties)
    /\ [][/\ IsPrefix(properties, properties')
          /\ pc' = "cancelled" => properties' = properties]_vars

\* cancelled while a page of the second station is being requested: the
\* records of the first station are held
C14_Witness ==
    /\ pc = "cancelled"
    /\ i = 2
    /\ Len(properties) >= 1
    /\ stations[2] \in fetched
    /\ RoomCount(properties) < target_count

\* C15: a page request that exhausts its retries ends the page loop of its
\* station: the step that gives the request up goes to the end of the
\* station, not to the lookup of a next-page link.
C15_ExhaustedFetchEndsStation ==
    [][(pc = "goto" /\ attempt = max_retries /\ pc' \notin {"goto", "extract"})
          => pc' = "station_end"]_vars

\* C16: every record held carries the name of the station whose listing it
\* was extracted from.
C16_TaggedWithOwnStation ==
    /\ \A k \in 1..Len(properties) : properties[k].station_name = properties[k].st
    /\ \A k \in 1..Len(result.properties) :
          result.properties[k].station_name = result.properties[k].st

\* C17: accepted records are never removed or changed; reading a page leaves
\* the records of the station's earlier pages as they are and adds the
\* elements of the page from the first one on without a gap, each with its
\* rooms from the first one on, all rooms kept except for the last record.
C17_TruncationDropsTail ==
    [][/\ IsPrefix(properties, properties')
       /\ pc = "extract" =>
             /\ IsPrefix(station_properties, station_properties')
             /\ \A k \in Len(station_properties) + 1..Len(station_properties') :
                   LET r == station_properties'[k] IN
                   /\ r.si = i
                   /\ r.pn = page_count + 1
                   /\ r.ix = k - Len(station_properties)
                   /\ r.rooms = Iota(Len(r.rooms))
                   /\ Len(r.rooms) >= 1
                   /\ k < Len(station_properties') => Len(r.rooms) = r.orig]_vars

\* the second page of a station brought the total over the quota: the record
\* of the first page is whole, the one of the second page is cut
C17_Witness ==
    /\ pc = "station_end"
    /\ Len(station_properties) = 2
    /\ station_properties[1].pn = 1
    /\ Len(station_properties[1].rooms) = station_properties[1].orig
    /\ station_properties[2].pn = 2
    /\ Len(station_properties[2].rooms) < station_properties[2].orig

\* C18: the first page of a station is requested with the request type
\* "station", every later page of the station with the request type "page".
C18_FirstPageStationClass ==
    pc = "pace" =>
        page_request_type = IF page_count = 0 THEN "station" ELSE "page"

\* C19: at most MaxPagesPerStation pages are requested during one station;
\* a page is requested only while the quota is not reached, fewer than
\* MaxPagesPerStation pages have been processed and there is a URL to go to,
\* which after the first page is the next-page link found on the page shown.
C19_PageCap ==
    /\ page_count <= MaxPagesPerStation
    /\ pc \in FetchPcs =>
          /\ page_count < MaxPagesPerStation
          /\ ~QuotaReached
          /\ current_url # NoUrl
    /\ (pc = "pace" /\ page_count > 0) => current_url = NextHref

\* ten pages processed and a next-page link at hand: the station ends
C19_Witness ==
    /\ pc = "station_end"
    /\ page_count = MaxPagesPerStation
    /\ current_url # NoUrl
    /\ ~QuotaReached

\* the step ends caller p's make_request
Finishes(p) == task[p].pc = "running" /\ task'[p].pc = "done"

\* C20: every make_request call that finishes records exactly one outcome,
\* with the flag of its result: a returned value adds one to success_count, a
\* raised error adds one to error_count, and nothing else changes the two
\* counts; the error raised to the caller is the one of the last attempt and
\* is recorded in the step that raises it.
C20_OneOutcomePerCall ==
    [][/\ \A p \in Callers :
             Finishes(p) =>
                 /\ Len(request_times') = Len(request_times) + 1
                 /\ IF task'[p].outcome.kind = "returned"
                    THEN /\ success_count' = success_count + 1
                         /\ error_count' = error_count
                    ELSE /\ task'[p].outcome = [kind |-> "raised", of |-> task[p].attempt]
                         /\ error_count' = error_count + 1
                         /\ success_count' = success_count
       /\ (\A p \in Callers : ~Finishes(p)) =>
             UNCHANGED <<request_times, success_count, error_count>>]_vars

\* one call returned, another raised after max_retries + 1 failures
C20_Witness ==
    /\ \E p \in Callers :
          /\ task[p].pc = "done"
          /\ task[p].outcome.kind = "raised"
          /\ task[p].fails = config.max_retries + 1
    /\ error_count = 1
    /\ success_count = 1

\* C21: the monitor gains one outcome for every attempt: each step in which
\* an invocation of the operation ends, with a value or with an error, adds
\* one timestamp and one to the count of that attempt's success flag.
C21_OneOutcomePerAttempt ==
    [][\A p \in Callers :
          (task[p].pc = "running" /\ task'[p].pc # "running") =>
              /\ Len(request_times') = Len(request_times) + 1
              /\ success_count' + error_count' = success_count + error_count + 1
              /\ task'[p].fails > task[p].fails => error_count' = error_count + 1]_vars

\* C22: after failed attempt k < max_retries exactly one wait occurs before
\* attempt k + 1, of a length within [0.5, 1.5] x retry_delay x 2^k; no wait
\* occurs after the last failed attempt or after a success: a call has slept
\* once per attempt begun after the first.
C22_BackoffDoubles ==
    \A p \in Callers :
        /\ task[p].pc = "backoff" =>
              /\ task[p].sleeps = task[p].attempt + 1
              /\ task[p].attempt < config.max_retries
              /\ 2 * task[p].actual_wait >= config.retry_delay * Pow2(task[p].attempt)
              /\ 2 * task[p].actual_wait <= 3 * config.retry_delay * Pow2(task[p].attempt)
        /\ task[p].pc = "running" => task[p].sleeps = task[p].attempt
        /\ task[p].outcome.kind \in {"returned", "raised"} =>
              task[p].sleeps = task[p].calls - 1

\* the wait after the second failed attempt, at its longest
C22_Witness ==
    \E p \in Callers :
        /\ task[p].pc = "backoff"
        /\ task[p].attempt = 1
        /\ task[p].actual_wait = 3 * config.retry_delay

\* the time of the latest call of record_request
LastRecorded == recorded_times[Len(recorded_times)]

\* C23: after a call of record_request at time t the log holds, in the order
\* recorded and unchanged, t and exactly those earlier timestamps that are
\* newer than t - Retention: none older is kept, none newer is lost.
C23_RetentionWindow ==
    recorded_times # << >> =>
        /\ request_times =
              SelectSeq(recorded_times, LAMBDA t : t > LastRecorded - Retention)
        /\ request_times[Len(request_times)] = LastRecorded

\* of three timestamps recorded the one just an hour old was dropped and the
\* one half an hour old was kept
C23_Witness ==
    /\ Len(recorded_times) = 3
    /\ Len(request_times) = 2
    /\ recorded_times[1] = LastRecorded - Retention
    /\ request_times[1] = LastRecorded - Retention \div 2

\* the window lengths asked for
Windows == {1, Retention \div 2, Retention, 2 * Retention}

\* C24: for every window length w > 0, also above Retention,
\* get_request_rate(w) is the number of outcomes recorded in the trailing w
\* seconds divided by w; the number counted does not grow when the window
\* is shortened.
C24_RateCountsWindow ==
    /\ \A w \in Windows :
          /\ get_request_rate(w).den = w
          /\ get_request_rate(w).num =
                 Len(SelectSeq(recorded_times, LAMBDA t : t > now - w))
    /\ \A v, w \in Windows :
          v <= w => get_request_rate(v).num <= get_request_rate(w).num

\* the attempts one page and one station can take
AttemptsPerPage == max_retries + 1
AttemptsPerStation == MaxPagesPerStation * AttemptsPerPage

\* the attempts accounted for at a position of the session: those of the
\* stations and pages left behind and those made for the page under way
Used ==
    LET before == (i - 1) * AttemptsPerStation IN
    CASE pc = "init" -> 0
      [] pc = "loop" -> before
      [] pc \in {"page_loop", "pace", "page_wait"} ->
             before + page_count * AttemptsPerPage
      [] pc \in {"goto", "backoff"} ->
             before + page_count * AttemptsPerPage + attempt + 1
      [] pc \in {"extract", "next_link"} ->
             before + (page_count + 1) * AttemptsPerPage
      [] pc \in {"station_end", "station_return", "station_wait", "next_station"} ->
             before + AttemptsPerStation
      [] OTHER -> Len(stations) * AttemptsPerStation

\* C25: every session reaches "done"; its fetch attempts number at most
\* Len(stations) x MaxPagesPerStation x (max_retries + 1): the attempts
\* accounted for never decrease, never exceed that number, and grow with
\* every attempt that is issued.
C25_SessionTerminates ==
    /\ <>(pc = "done")
    /\ [](Used <= Len(stations) * AttemptsPerStation)
    /\ [][/\ Used' >= Used
          /\ (pc' = "goto" /\ pc # "goto") => Used' > Used]_vars

\* a session over two stations returned after ten pages of the last
\* station, the last request given up after max_retries + 1 attempts
C25_Witness ==
    /\ pc = "done"
    /\ i = 3
    /\ page_count = MaxPagesPerStation
    /\ attempt = max_retries

\* C26: on every path out of scrape_all_stations (normal return, cancellation,
\* a failure part-way through create_browser) the browser resources that were
\* started are closed: none is left open once the session has ended.
C26_BrowserClosedOnEveryExit ==
    pc \in {"done", "cancelled", "raised"} => resources = {}

\* callers inside "async with self._semaphore"
Sleepers == { p \in Callers : task[p].pc = "sleep" }

\* C27: no slot of the semaphore is leaked: the free slots and the callers
\* inside the paced section always add up to concurrent_limit, so at most
\* concurrent_limit callers are inside it and all slots are free when no
\* call is inside it, also after calls were cancelled while sleeping.
C27_NoSlotLeaked ==
    /\ semaphore + Cardinality(Sleepers) = config.concurrent_limit
    /\ Cardinality(Sleepers) <= config.concurrent_limit
    /\ semaphore >= 0
    /\ Sleepers = {} => semaphore = config.concurrent_limit

\* a call was cancelled while it slept, another waits for a slot, all slots
\* are free again
C27_Witness ==
    /\ \E p \in Callers : task[p].outcome = [kind |-> "cancelled", of |-> 1]
    /\ \E p \in Callers : task[p].pc = "acquire"
    /\ Sleepers = {}
    /\ semaphore = config.concurrent_limit

\* C28: every property held, in the accumulator, in the station's list or in
\* the result, has at least one room, also after the quota cut; a property
\* whose rooms were cut keeps between one room and the rooms that were
\* still needed.
C28_NoEmptyProperty ==
    /\ \A k \in 1..Len(Held) : Len(Held[k].rooms) >= 1
    /\ \A k \in 1..Len(result.properties) : Len(result.properties[k].rooms) >= 1
    /\ \A k \in 1..Len(Held) :
          Len(Held[k].rooms) < Held[k].orig =>
              /\ Len(Held[k].rooms) >= 1
              /\ RoomCount(SubSeq(Held, 1, k)) = target_count

\* the quota was filled exactly by the records before the last one of the
\* page, which is dropped whole: three rooms read, two kept, none cut
C28_Witness ==
    /\ pc = "station_end"
    /\ yielded = target_count + 1
    /\ RoomCount(station_properties) = target_count
    /\ \A k \in 1..Len(station_properties) :
          Len(station_properties[k].rooms) = station_properties[k].orig

\* C29: SuumoPlaywrightScraper.scrape_station terminates for every site
\* behaviour: the quota is reached or no next-page link is found in the end,
\* also when pages yield no rooms or fail to load while a next-page link can
\* still be found.
C29_PlainStationTerminates == <>(pc = "plain_returned")

\* C30: the export of a finished session does not raise: save_to_json writes
\* the data file, and the validation-error file exactly when there are
\* validation errors, whether the file name is generated or passed, and
\* save_to_csv is then reached.
C30_ExportCompletes ==
    /\ pc # "export_raised"
    /\ pc \in {"json_saved", "exported"} =>
          /\ "json" \in files
          /\ ("validation_errors" \in files) <=> (validation_errors > 0)
    /\ pc = "exported" => "csv" \in files

====
